---------------------------- MODULE Spec2Model ----------------------------
(***************************************************************************)
(* Model of src/bot.py: the Twitch (push) / YouTube (poll) live            *)
(* notification bot.  One asyncio event loop runs the tasks of the         *)
(* program: main(), YouTubeMonitor.start(), the on_stream_online callback, *)
(* the detached post_threads_meta tasks and the notifier.stop() task the   *)
(* signal handler creates.  A task runs from one await to the next without *)
(* interleaving (variable "active" names the task that is between two      *)
(* awaits); everything else interleaves at the awaits.                     *)
(*                                                                         *)
(* Scope: sys.platform != "win32" (bot.py:458), so SIGINT and SIGTERM are  *)
(* both delivered to signal_handler; one termination signal per run; one   *)
(* on_stream_online callback in flight at a time.                          *)
(***************************************************************************)
EXTENDS Integers, Sequences, FiniteSets, TLC

(***************************************************************************)
(* Bounds of the model.                                                    *)
(***************************************************************************)
MaxVideoIds == 2
MaxYtChannels == 2
MaxTwChannels == 2
MaxEvents == 1
MaxScheduled == 1
PostCap == 2
MaxContainers == 2
MaxStopCalls == 4
\* Longest FANNAMES / DISPLAY_NAMES list, and largest index looked up.
MaxNames == 3
MaxIndex == 4
\* Longest template, in tokens, handed to str.format.
MaxTokens == 2

VideoIds == 1..MaxVideoIds
None == 0
TwChannels == 1..MaxTwChannels

\* A template as the code uses it: empty (falsy), one that str.format renders with
\* the keyword arguments the call supplies, or one that references a placeholder the
\* call does not supply (str.format raises KeyError).
TemplateKinds == {"empty", "ok", "bad"}

\* title and game of on_stream_online before they are assigned.
NoFields == [title |-> "", game |-> ""]

VARIABLES
    cfg,              \* the environment read at import (bot.py:29-80)
    mainpc,           \* position of main() / notifier.start()
    exitCode,         \* process exit status, -1 while the process runs
    exitCause,        \* what ended the process
    loopState,        \* asyncio event loop: "running", "stopped", "closed"
    ytInBatch,        \* the YouTube task's wake-up is in the batch loop.stop() lets finish
    active,           \* task currently between two awaits, "none" otherwise
    signalled,        \* signal_handler has run
    twitch,           \* TwitchNotifier.twitch: "None", "open", "closed"
    eventsub,         \* TwitchNotifier.eventsub: "None", "started", "stopped"
    broadcaster_ids,  \* TwitchNotifier.broadcaster_ids (resolved channels)
    listeners,        \* channels with a registered stream.online listener
    stoppc,           \* the notifier.stop() task created by signal_handler
    running,          \* YouTubeMonitor.running
    known_video_ids,  \* YouTubeMonitor.known_video_ids
    stopRequested,    \* YouTubeMonitor.stop() has been called
    ytpc,             \* position of the YouTubeMonitor.start() task
    chan,             \* index of the channel check_all_channels is at
    det,              \* video id of the detection being dispatched
    detMarker,        \* the response behind that detection held the playability marker
    ytTrace,          \* what has been done for that detection, in order
    ytPost,           \* what post_tweet returned for that detection
    cycleKnown,       \* known_video_ids when the current cycle began
    cyclePosts,       \* ids posted to a sink in the current cycle
    probed,           \* channels probed in the current cycle
    lastLive,         \* what check_channel_live returned last in the current cycle
    rejected,         \* unknown ids seen without the playability marker
    tweets,           \* per video id: number of post_tweet calls
    evpc,             \* position of the on_stream_online callback
    evCount,          \* stream.online events delivered so far
    evMeta,           \* outcome of the get_streams lookup of the callback
    evMsg,            \* title and game the callback passes to the templates
    evTrace,          \* what has been done for the event, in order
    evPost,           \* what post_tweet returned for the event
    threadsPending,   \* post_threads_meta tasks created and not finished
    thpc,             \* position of one post_threads_meta call followed step by step
    thIn,             \* its inputs: source, credentials, rendered message
    thCalls,          \* the network calls it has made, in order
    thResp,           \* the responses to those calls, in order
    thRet,            \* what it returned: "none", "True", "False"
    nspc,             \* position of a caller driving TwitchNotifier on its own
    nsCount,          \* its tally: how start() ended, stop() calls, teardown calls
    giIn,             \* FANNAMES, DISPLAY_NAMES and the index of one get_streamer_info call
    giOut,            \* what that call returned
    fmtIn,            \* the path and the template of one str.format call
    fmtOut            \* how that call ended and what it rendered

vars == <<cfg, mainpc, exitCode, exitCause, loopState, ytInBatch, active, signalled,
          twitch, eventsub, broadcaster_ids, listeners, stoppc, running,
          known_video_ids, stopRequested, ytpc, chan, det, detMarker, ytTrace, ytPost,
          cycleKnown, cyclePosts, probed, lastLive, rejected, tweets, evpc, evCount,
          evMeta, evMsg, evTrace, evPost, threadsPending, thpc, thIn, thCalls, thResp,
          thRet, nspc, nsCount, giIn, giOut, fmtIn, fmtOut>>

\* The parts of the program followed on their own, each under a specification of
\* its own (ThreadsSpec, NotifierSpec, InfoSpec, FormatSpec); Spec leaves them as
\* Init sets them.
thVars == <<thpc, thIn, thCalls, thResp, thRet>>
nsVars == <<nspc, nsCount>>
giVars == <<giIn, giOut>>
fmtVars == <<fmtIn, fmtOut>>
unitVars == <<thVars, nsVars, giVars, fmtVars>>
envVars == <<cfg, unitVars>>

loopVars == <<loopState, ytInBatch, signalled>>
exitVars == <<exitCode, exitCause>>
twVars == <<twitch, eventsub, broadcaster_ids, listeners>>
ytVars == <<running, known_video_ids, stopRequested, ytpc, chan, det, detMarker, ytTrace,
            ytPost, cycleKnown, cyclePosts, probed, lastLive, rejected, tweets>>
ytLoopVars == <<ytpc, chan, det, detMarker, ytTrace, ytPost, cycleKnown, cyclePosts,
                probed, lastLive, rejected, tweets>>
evVars == <<evpc, evCount, evMeta, evMsg, evTrace, evPost>>

(***************************************************************************)
(* Configuration (module-level globals of bot.py).  A setting the run      *)
(* never reads is given one value: nothing of YouTube without a channel,   *)
(* no secondary template behind a primary template that does not render,   *)
(* nothing at all when a required variable is missing.  More than one      *)
(* Twitch channel is explored with YouTube off and the default templates:  *)
(* resolving the channels and subscribing to them read neither.            *)
(***************************************************************************)
TemplatePairs ==
    {p \in {"ok", "bad"} \X TemplateKinds : p[1] = "bad" => p[2] = "empty"}

Configs ==
    {c \in [envOK : BOOLEAN,
            twChannels : {1, MaxTwChannels},
            ytChannels : {0, MaxYtChannels},
            scheduled : SUBSET (1..MaxScheduled),
            ytTemplates : TemplatePairs,
            twTemplates : TemplatePairs] :
        /\ c.ytChannels = 0 => c.scheduled = {} /\ c.ytTemplates = <<"ok", "empty">>
        /\ ~c.envOK => /\ c.ytChannels = 0
                       /\ c.twTemplates = <<"ok", "empty">>
                       /\ c.twChannels = 1
        /\ c.twChannels > 1 => /\ c.ytChannels = 0
                               /\ c.twTemplates = <<"ok", "empty">>}

TWITCH_CHANNELS == 1..cfg.twChannels

YOUTUBE_CHANNELS == 1..cfg.ytChannels
YOUTUBE_SCHEDULED_STREAMS == cfg.scheduled
YOUTUBE_NOTIFICATION_TEMPLATE == cfg.ytTemplates[1]
YOUTUBE_THREADS_TEMPLATE == cfg.ytTemplates[2]
TWITCH_NOTIFICATION_TEMPLATE == cfg.twTemplates[1]
TWITCH_THREADS_TEMPLATE == cfg.twTemplates[2]

\* State of the program when main() is entered.
MainInit ==
    /\ cfg \in Configs
    /\ mainpc = "validate"
    /\ exitCode = -1
    /\ exitCause = "none"
    /\ loopState = "running"
    /\ ytInBatch = FALSE
    /\ active = "none"
    /\ signalled = FALSE
    /\ twitch = "None"
    /\ eventsub = "None"
    /\ broadcaster_ids = {}
    /\ listeners = {}
    /\ stoppc = "none"
    /\ running = FALSE
    /\ known_video_ids = {}
    /\ stopRequested = FALSE
    /\ ytpc = "none"
    /\ chan = 0
    /\ detMarker = FALSE
    /\ det = None
    /\ ytTrace = <<>>
    /\ ytPost = "none"
    /\ cycleKnown = {}
    /\ cyclePosts = {}
    /\ probed = {}
    /\ lastLive = None
    /\ rejected = {}
    /\ tweets = [v \in VideoIds |-> 0]
    /\ evpc = "idle"
    /\ evCount = 0
    /\ evMeta = "none"
    /\ evMsg = NoFields
    /\ evTrace = <<>>
    /\ evPost = "none"
    /\ threadsPending = 0

\* No post_threads_meta call is followed step by step.
ThreadsIdle ==
    /\ thpc = "none"
    /\ thIn = [src |-> "none", token |-> FALSE, user |-> FALSE, message |-> ""]
    /\ thCalls = <<>>
    /\ thResp = <<>>
    /\ thRet = "none"

\* No caller drives TwitchNotifier on its own.
NotifierIdle ==
    /\ nspc = "none"
    /\ nsCount = [eventsub_stop |-> 0, twitch_close |-> 0, stops |-> 0,
                  started |-> "no", raised |-> FALSE]

\* No get_streamer_info call is followed.
InfoIdle ==
    /\ giIn = [fans |-> 0, names |-> 0, index |-> 0]
    /\ giOut = <<>>

\* No str.format call is followed.
FormatIdle ==
    /\ fmtIn = [path |-> "none", template |-> <<>>]
    /\ fmtOut = [state |-> "none", key |-> "", out |-> <<>>]

Init == MainInit /\ ThreadsIdle /\ NotifierIdle /\ InfoIdle /\ FormatIdle

(***************************************************************************)
(* The event loop.  A suspended task resumes only between two callbacks    *)
(* (active = "none") and while the loop runs.  loop.stop() lets the batch  *)
(* of callbacks it is called in finish: a wake-up of the YouTube task that *)
(* is in that batch still runs, after signal_handler.  (Of the callbacks   *)
(* of a batch only YouTubeMonitor.start reads what signal_handler writes,  *)
(* so the others are taken to run before it.)                              *)
(***************************************************************************)
CanResume == active = "none" /\ loopState = "running"

CanResumeYt ==
    /\ active = "none"
    /\ \/ loopState = "running"
       \/ loopState = "stopped" /\ ytInBatch

(***************************************************************************)
(* Pure helpers.                                                           *)
(***************************************************************************)
\* What session.get(url) can yield: an exception, or a response with a status, a
\* final URL that does or does not match watch?v=<id>, a body that does or does not
\* hold "videoId":"<id>", and a body with or without the playability marker.
Responses ==
    {[err |-> TRUE, status |-> 0, urlVid |-> None, bodyVid |-> None, marker |-> FALSE],
     [err |-> FALSE, status |-> 404, urlVid |-> None, bodyVid |-> None,
      marker |-> FALSE]}
    \cup {r \in [err : {FALSE}, status : {200}, urlVid : VideoIds \cup {None},
                 bodyVid : VideoIds \cup {None}, marker : BOOLEAN] :
             r.urlVid # None /\ r.bodyVid # None => r.urlVid # r.bodyVid}

\* re.search on final_url, then on html (bot.py:218-221).
video_match(r) == IF r.urlVid # None THEN r.urlVid ELSE r.bodyVid

check_channel_live_nomarker(r) ==
    IF r.err THEN None
    ELSE IF r.status # 200 THEN None
    ELSE video_match(r)

\* YouTubeMonitor.check_channel_live: the video id, or None.
check_channel_live(r) ==
    IF r.err THEN None
    ELSE IF r.status # 200 THEN None
    ELSE IF video_match(r) = None THEN None
    ELSE IF ~r.marker THEN None
    ELSE video_match(r)

is_new_video_nodedup(video_id, known) == video_id # None

\* "if video_id and video_id not in self.known_video_ids" (bot.py:258).
is_new_video(video_id, known) == video_id # None /\ video_id \notin known

add_known_skip(known, video_id) == known

\* A detection that forgets every identifier but the newest.
add_known_replace(known, video_id) == {video_id}

\* "self.known_video_ids.add(video_id)" (bot.py:264).
add_known(known, video_id) == known \cup {video_id}

\* str.format with the keyword arguments of the call: the message, or KeyError.
format(template) == IF template = "bad" THEN "KeyError" ELSE "message"

\* What client.create_tweet does inside post_tweet.
PostOutcomes == {"ok", "Forbidden", "Unauthorized", "TweepyException", "Exception"}

post_tweet_nocatch(o) ==
    [raised |-> o = "Exception", ret |-> IF o = "ok" THEN "tweet_id" ELSE "None"]

\* post_tweet: every exception class is caught; returns the tweet id or None.
post_tweet(o) ==
    [raised |-> FALSE, ret |-> IF o = "ok" THEN "tweet_id" ELSE "None"]

PostResult(r) == IF r.raised THEN "raised" ELSE IF r.ret = "None" THEN "fail" ELSE "ok"

Bump(n) == IF n < PostCap THEN n + 1 ELSE n

(***************************************************************************)
(* YouTubeMonitor (poll source).                                           *)
(***************************************************************************)
\* End of the body of "for channel_id in self.channels" for one channel: on to the
\* next channel's fetch, or out of check_all_channels into the interval sleep of
\* start() (bot.py:255, 314).
NextChannel(pr, live) ==
    /\ detMarker' = FALSE
    /\ det' = None
    /\ ytTrace' = <<>>
    /\ ytPost' = "none"
    /\ active' = "none"
    /\ IF chan < cfg.ytChannels
       THEN /\ chan' = chan + 1
            /\ ytpc' = "fetch"
            /\ probed' = pr
            /\ lastLive' = live
            /\ UNCHANGED <<cycleKnown, cyclePosts>>
       ELSE /\ chan' = 0
            /\ ytpc' = "sleep"
            /\ probed' = {}
            /\ lastLive' = None
            /\ cycleKnown' = known_video_ids
            /\ cyclePosts' = {}

\* A response with a video id and without the playability marker.
Unplayable(r) ==
    ~r.err /\ r.status = 200 /\ video_match(r) # None /\ ~r.marker

\* First step of the task main() created: start() up to the loop test
\* (bot.py:294-306).
YtStart ==
    /\ ytpc = "created"
    /\ CanResumeYt
    /\ ytInBatch' = FALSE
    /\ IF YOUTUBE_CHANNELS = {}
       THEN ytpc' = "returned" /\ active' = "none" /\ running' = running
       ELSE ytpc' = "loop_test" /\ active' = "yt" /\ running' = TRUE
    /\ UNCHANGED <<envVars, mainpc, exitVars, loopState, signalled, twVars, stoppc,
                   known_video_ids, stopRequested, chan, det, detMarker, ytTrace, ytPost,
                   cycleKnown, cyclePosts, probed, lastLive, rejected, tweets, evVars,
                   threadsPending>>

\* "while self.running" (bot.py:308).
YtLoopTest ==
    /\ ytpc = "loop_test"
    /\ active = "yt"
    /\ IF running
       THEN ytpc' = "cycle_begin" /\ active' = "yt"
       ELSE ytpc' = "returned" /\ active' = "none"
    /\ UNCHANGED <<envVars, mainpc, exitVars, loopVars, twVars, stoppc, running,
                   known_video_ids, stopRequested, chan, det, detMarker, ytTrace, ytPost,
                   cycleKnown, cyclePosts, probed, lastLive, rejected, tweets, evVars,
                   threadsPending>>

\* A check cycle that starts from the pre-seeded ids alone: a cache per cycle
\* instead of one for the lifetime of the monitor.
YtCycleBegin_fresh ==
    /\ ytpc = "cycle_begin"
    /\ active = "yt"
    /\ known_video_ids' = YOUTUBE_SCHEDULED_STREAMS
    /\ cycleKnown' = known_video_ids'
    /\ cyclePosts' = {}
    /\ probed' = {}
    /\ lastLive' = None
    /\ active' = "none"
    /\ IF YOUTUBE_CHANNELS = {}
       THEN chan' = 0 /\ ytpc' = "sleep"
       ELSE chan' = 1 /\ ytpc' = "fetch"
    /\ UNCHANGED <<envVars, mainpc, exitVars, loopVars, twVars, stoppc, running,
                   stopRequested, det, detMarker, ytTrace, ytPost,
                   rejected, tweets, evVars, threadsPending>>

\* Entry of check_all_channels up to the first session.get (bot.py:247-256).
YtCycleBegin ==
    /\ ytpc = "cycle_begin"
    /\ active = "yt"
    /\ cycleKnown' = known_video_ids
    /\ cyclePosts' = {}
    /\ probed' = {}
    /\ lastLive' = None
    /\ active' = "none"
    /\ IF YOUTUBE_CHANNELS = {}
       THEN chan' = 0 /\ ytpc' = "sleep"
       ELSE chan' = 1 /\ ytpc' = "fetch"
    /\ UNCHANGED <<envVars, mainpc, exitVars, loopVars, twVars, stoppc, running,
                   known_video_ids, stopRequested, det, detMarker, ytTrace, ytPost,
                   rejected, tweets, evVars, threadsPending>>

\* The fetch of channel "chan" completes with r (a response or an exception),
\* check_channel_live returns, and a new id is added to the cache
\* (bot.py:256-264, 210-245).
YtProbe(r) ==
    /\ ytpc = "fetch"
    /\ CanResumeYt
    /\ ytInBatch' = FALSE
    /\ LET video_id == check_channel_live(r) IN
       IF is_new_video(video_id, known_video_ids)
       THEN /\ known_video_ids' = add_known(known_video_ids, video_id)
            /\ det' = video_id
            /\ detMarker' = r.marker
            /\ ytTrace' = IF video_id \in known_video_ids' THEN <<"mark">> ELSE <<>>
            /\ ytpc' = "render"
            /\ active' = "yt"
            /\ probed' = probed \cup {chan}
            /\ lastLive' = video_id
            /\ UNCHANGED <<chan, ytPost, rejected, cycleKnown, cyclePosts>>
       ELSE /\ NextChannel(probed \cup {chan}, video_id)
            /\ rejected' = IF Unplayable(r) /\ video_match(r) \notin known_video_ids
                           THEN rejected \cup {video_match(r)} ELSE rejected
            /\ UNCHANGED known_video_ids
    /\ UNCHANGED <<envVars, mainpc, exitVars, loopState, signalled, twVars, stoppc,
                   running, stopRequested, tweets, evVars, threadsPending>>

\* YOUTUBE_NOTIFICATION_TEMPLATE.format(...) (bot.py:271-277); a KeyError leaves
\* check_all_channels.
YtRender ==
    /\ ytpc = "render"
    /\ active = "yt"
    /\ ytpc' = IF format(YOUTUBE_NOTIFICATION_TEMPLATE) = "KeyError"
               THEN "raised" ELSE "post"
    /\ UNCHANGED <<envVars, mainpc, exitVars, loopVars, active, twVars, stoppc, running,
                   known_video_ids, stopRequested, chan, det, detMarker, ytTrace, ytPost,
                   cycleKnown, cyclePosts, probed, lastLive, rejected, tweets, evVars,
                   threadsPending>>

\* post_tweet(message) (bot.py:280) returns: a blocking call, made with no await,
\* that the task sits in while ytpc = "post"; o is what create_tweet did.
YtPost(o) ==
    /\ ytpc = "post"
    /\ active = "yt"
    /\ tweets' = [tweets EXCEPT ![det] = Bump(@)]
    /\ cyclePosts' = cyclePosts \cup {det}
    /\ ytTrace' = Append(ytTrace, "post")
    /\ ytPost' = PostResult(post_tweet(o))
    /\ ytpc' = IF post_tweet(o).raised THEN "raised" ELSE "threads"
    /\ UNCHANGED <<envVars, mainpc, exitVars, loopVars, active, twVars, stoppc, running,
                   known_video_ids, stopRequested, chan, det, detMarker, cycleKnown,
                   probed, lastLive, rejected, evVars, threadsPending>>

threads_dispatch_always(template) ==
    IF format(template) = "KeyError" THEN "raise" ELSE "task"

\* "if <source>_THREADS_TEMPLATE:" and the rendering under it (bot.py:283-291,
\* 367-375): nothing to do, a KeyError, or a message to hand to a new task.
threads_dispatch(template) ==
    IF template = "empty" THEN "skip"
    ELSE IF format(template) = "KeyError" THEN "raise"
    ELSE "task"

\* "if YOUTUBE_THREADS_TEMPLATE:" render and asyncio.create_task(post_threads_meta)
\* (bot.py:283-292).
YtThreads ==
    /\ ytpc = "threads"
    /\ active = "yt"
    /\ IF threads_dispatch(YOUTUBE_THREADS_TEMPLATE) = "skip"
       THEN ytpc' = "next" /\ UNCHANGED <<threadsPending, ytTrace, cyclePosts>>
       ELSE IF threads_dispatch(YOUTUBE_THREADS_TEMPLATE) = "raise"
       THEN ytpc' = "raised" /\ UNCHANGED <<threadsPending, ytTrace, cyclePosts>>
       ELSE /\ threadsPending' = threadsPending + 1
            /\ ytTrace' = Append(ytTrace, "task")
            /\ cyclePosts' = cyclePosts \cup {det}
            /\ ytpc' = "next"
    /\ UNCHANGED <<envVars, mainpc, exitVars, loopVars, active, twVars, stoppc, running,
                   known_video_ids, stopRequested, chan, det, detMarker, ytPost,
                   cycleKnown, probed, lastLive, rejected, tweets, evVars>>

YtNext_await ==
    /\ threadsPending = 0
    /\ ytpc = "next"
    /\ active = "yt"
    /\ NextChannel(probed, lastLive)
    /\ rejected' = rejected \ {det}
    /\ UNCHANGED <<envVars, mainpc, exitVars, loopVars, twVars, stoppc, running,
                   known_video_ids, stopRequested, tweets, evVars, threadsPending>>

\* The detection is done: next iteration of the for loop (bot.py:255).
YtNext ==
    /\ ytpc = "next"
    /\ active = "yt"
    /\ NextChannel(probed, lastLive)
    /\ rejected' = rejected \ {det}
    /\ UNCHANGED <<envVars, mainpc, exitVars, loopVars, twVars, stoppc, running,
                   known_video_ids, stopRequested, tweets, evVars, threadsPending>>

YtCycleRaised_nocatch ==
    /\ ytpc = "raised"
    /\ active = "yt"
    /\ ytpc' = "failed"
    /\ active' = "none"
    /\ detMarker' = FALSE
    /\ det' = None
    /\ ytTrace' = <<>>
    /\ ytPost' = "none"
    /\ rejected' = rejected \ {det}
    /\ chan' = 0
    /\ probed' = {}
    /\ lastLive' = None
    /\ cycleKnown' = known_video_ids
    /\ cyclePosts' = {}
    /\ UNCHANGED <<envVars, mainpc, exitVars, loopVars, twVars, stoppc, running,
                   known_video_ids, stopRequested, tweets, evVars, threadsPending>>

\* A handler that takes the id of the failed detection out of known_video_ids, so
\* that a later cycle announces it again.
YtCycleRaised_retry ==
    /\ ytpc = "raised"
    /\ active = "yt"
    /\ known_video_ids' = known_video_ids \ {det}
    /\ ytpc' = "sleep"
    /\ active' = "none"
    /\ detMarker' = FALSE
    /\ det' = None
    /\ ytTrace' = <<>>
    /\ ytPost' = "none"
    /\ rejected' = rejected \ {det}
    /\ chan' = 0
    /\ probed' = {}
    /\ lastLive' = None
    /\ cycleKnown' = known_video_ids'
    /\ cyclePosts' = {}
    /\ UNCHANGED <<envVars, mainpc, exitVars, loopVars, twVars, stoppc, running,
                   stopRequested, tweets, evVars, threadsPending>>

\* "except Exception" around check_all_channels in start(), then the interval sleep
\* (bot.py:309-314).
YtCycleRaised ==
    /\ ytpc = "raised"
    /\ active = "yt"
    /\ ytpc' = "sleep"
    /\ active' = "none"
    /\ detMarker' = FALSE
    /\ det' = None
    /\ ytTrace' = <<>>
    /\ ytPost' = "none"
    /\ rejected' = rejected \ {det}
    /\ chan' = 0
    /\ probed' = {}
    /\ lastLive' = None
    /\ cycleKnown' = known_video_ids
    /\ cyclePosts' = {}
    /\ UNCHANGED <<envVars, mainpc, exitVars, loopVars, twVars, stoppc, running,
                   known_video_ids, stopRequested, tweets, evVars, threadsPending>>

\* asyncio.sleep(YOUTUBE_CHECK_INTERVAL) elapses (bot.py:314).
YtWake ==
    /\ ytpc = "sleep"
    /\ CanResumeYt
    /\ ytInBatch' = FALSE
    /\ ytpc' = "loop_test"
    /\ active' = "yt"
    /\ UNCHANGED <<envVars, mainpc, exitVars, loopState, signalled, twVars, stoppc,
                   running, known_video_ids, stopRequested, chan, det, detMarker, ytTrace,
                   ytPost, cycleKnown, cyclePosts, probed, lastLive, rejected, tweets,
                   evVars,
                   threadsPending>>

(***************************************************************************)
(* main() and TwitchNotifier.start() (push source start-up).               *)
(***************************************************************************)
\* main() goes on to its next await.
MainContinue(pc) ==
    /\ mainpc' = pc
    /\ UNCHANGED <<loopState, exitCause, running, stopRequested>>

\* sys.exit(1) inside the main task: SystemExit leaves the task and the event loop
\* at once; asyncio.run then cancels what is left (Cleanup) and the process exits.
SysExit(cause) ==
    /\ mainpc' = "exited"
    /\ loopState' = "stopped"
    /\ exitCause' = cause

\* An await of notifier.start() raises: "except Exception" of main() calls
\* youtube_monitor.stop() and enters notifier.stop() up to its first await, or
\* through to sys.exit(1) when there is nothing to close (bot.py:477-481, 428-438).
MainRaise ==
    /\ running' = FALSE
    /\ stopRequested' = TRUE
    /\ IF eventsub # "None"
       THEN mainpc' = "h_eventsub_stop" /\ UNCHANGED <<loopState, exitCause>>
       ELSE IF twitch # "None"
       THEN mainpc' = "h_twitch_close" /\ UNCHANGED <<loopState, exitCause>>
       ELSE SysExit("error")

\* validate_env(), construction of the two monitors, the signal handlers, and
\* notifier.start() up to "await Twitch(...)" (bot.py:443-463, 380-384).
MainValidate ==
    /\ mainpc = "validate"
    /\ CanResume
    /\ IF ~cfg.envOK
       THEN SysExit("config") /\ UNCHANGED <<running, known_video_ids>>
       ELSE /\ known_video_ids' = YOUTUBE_SCHEDULED_STREAMS
            /\ running' = FALSE
            /\ mainpc' = "twitch_init"
            /\ UNCHANGED <<loopState, exitCause>>
    /\ UNCHANGED <<envVars, exitCode, ytInBatch, active, signalled, twVars, stoppc,
                   stopRequested, ytLoopVars, evVars, threadsPending>>

\* "self.twitch = await Twitch(...)" (bot.py:384).
MainTwitchInit(ok) ==
    /\ mainpc = "twitch_init"
    /\ CanResume
    /\ IF ok
       THEN twitch' = "open" /\ MainContinue("get_code")
       ELSE twitch' = twitch /\ MainRaise
    /\ UNCHANGED <<envVars, exitCode, ytInBatch, active, signalled, eventsub,
                   broadcaster_ids, listeners, stoppc, known_video_ids, ytLoopVars,
                   evVars, threadsPending>>

\* "await code_flow.get_code()" (bot.py:387).
MainGetCode(ok) ==
    /\ mainpc = "get_code"
    /\ CanResume
    /\ IF ok THEN MainContinue("wait_auth") ELSE MainRaise
    /\ UNCHANGED <<envVars, exitCode, ytInBatch, active, signalled, twVars, stoppc,
                   known_video_ids, ytLoopVars, evVars, threadsPending>>

\* "await code_flow.wait_for_auth_complete()" returns or raises (bot.py:389).
MainAuthDone(ok) ==
    /\ mainpc = "wait_auth"
    /\ CanResume
    /\ IF ok THEN MainContinue("set_auth") ELSE MainRaise
    /\ UNCHANGED <<envVars, exitCode, ytInBatch, active, signalled, twVars, stoppc,
                   known_video_ids, ytLoopVars, evVars, threadsPending>>

\* "await self.twitch.set_user_authentication(...)" (bot.py:392).
MainSetAuth(ok) ==
    /\ mainpc = "set_auth"
    /\ CanResume
    /\ IF ok THEN MainContinue("get_users") ELSE MainRaise
    /\ UNCHANGED <<envVars, exitCode, ytInBatch, active, signalled, twVars, stoppc,
                   known_video_ids, ytLoopVars, evVars, threadsPending>>

\* get_users resolves a subset of the configured channels; none is sys.exit(1);
\* otherwise the EventSub websocket is started and the first listen_stream_online
\* is awaited (bot.py:395-419).
MainGetUsers(ok, found) ==
    /\ mainpc = "get_users"
    /\ CanResume
    /\ IF ~ok
       THEN MainRaise /\ UNCHANGED <<broadcaster_ids, eventsub>>
       ELSE IF found = {}
       THEN /\ SysExit("zero_channels")
            /\ UNCHANGED <<broadcaster_ids, eventsub, running, stopRequested>>
       ELSE /\ broadcaster_ids' = found
            /\ eventsub' = "started"
            /\ MainContinue("listen")
    /\ UNCHANGED <<envVars, exitCode, ytInBatch, active, signalled, twitch, listeners,
                   stoppc, known_video_ids, ytLoopVars, evVars, threadsPending>>

\* A start-up that registers a listener per configured channel, resolved or not.
NextBroadcaster_configured ==
    CHOOSE c \in TWITCH_CHANNELS \ listeners :
        \A d \in TWITCH_CHANNELS \ listeners : c <= d

\* The next item of "for channel_name, broadcaster_id in
\* self.broadcaster_ids.items()" (bot.py:418).
NextBroadcaster == CHOOSE c \in broadcaster_ids \ listeners :
                       \A d \in broadcaster_ids \ listeners : c <= d

\* A main() that creates the YouTube task whether or not start() returned.
MainListen_always(ok) ==
    /\ mainpc = "listen"
    /\ CanResume
    /\ ytpc' = IF YOUTUBE_CHANNELS # {} THEN "created" ELSE ytpc
    /\ IF ~ok
       THEN MainRaise /\ UNCHANGED listeners
       ELSE /\ listeners' = listeners \cup {NextBroadcaster}
            /\ IF listeners' = broadcaster_ids
               THEN MainContinue("sleep")
               ELSE MainContinue("listen")
    /\ UNCHANGED <<envVars, exitCode, ytInBatch, active, signalled, twitch, eventsub,
                   broadcaster_ids, stoppc, known_video_ids, chan, det, detMarker,
                   ytTrace, ytPost, cycleKnown, cyclePosts, probed, lastLive, rejected,
                   tweets,
                   evVars, threadsPending>>

\* One "await self.eventsub.listen_stream_online(...)" (bot.py:418-423); after the
\* last one start() returns and main() creates the YouTube task and sleeps
\* (bot.py:466-471).
MainListen(ok) ==
    /\ mainpc = "listen"
    /\ CanResume
    /\ IF ~ok
       THEN MainRaise /\ UNCHANGED <<listeners, ytpc>>
       ELSE /\ listeners' = listeners \cup {NextBroadcaster}
            /\ IF listeners' = broadcaster_ids
               THEN /\ MainContinue("sleep")
                    /\ ytpc' = IF YOUTUBE_CHANNELS # {} THEN "created" ELSE ytpc
               ELSE MainContinue("listen") /\ ytpc' = ytpc
    /\ UNCHANGED <<envVars, exitCode, ytInBatch, active, signalled, twitch, eventsub,
                   broadcaster_ids, stoppc, known_video_ids, chan, det, detMarker,
                   ytTrace, ytPost, cycleKnown, cyclePosts, probed, lastLive, rejected,
                   tweets,
                   evVars, threadsPending>>

\* notifier.stop() awaited by the handler of main(): "await self.eventsub.stop()"
\* is done (bot.py:432-436).
MainStopEventsub ==
    /\ mainpc = "h_eventsub_stop"
    /\ CanResume
    /\ eventsub' = "stopped"
    /\ IF twitch # "None"
       THEN MainContinue("h_twitch_close")
       ELSE SysExit("error") /\ UNCHANGED <<running, stopRequested>>
    /\ UNCHANGED <<envVars, exitCode, ytInBatch, active, signalled, twitch,
                   broadcaster_ids, listeners, stoppc, known_video_ids, ytLoopVars,
                   evVars, threadsPending>>

\* "await self.twitch.close()" is done, then sys.exit(1) (bot.py:436, 481).
MainStopTwitch ==
    /\ mainpc = "h_twitch_close"
    /\ CanResume
    /\ twitch' = "closed"
    /\ SysExit("error")
    /\ UNCHANGED <<envVars, exitCode, ytInBatch, active, signalled, eventsub,
                   broadcaster_ids, listeners, stoppc, running, stopRequested,
                   known_video_ids, ytLoopVars, evVars, threadsPending>>

\* "while True: await asyncio.sleep(1)" (bot.py:470-471).
MainTick ==
    /\ mainpc = "sleep"
    /\ CanResume
    /\ UNCHANGED vars

(***************************************************************************)
(* TwitchNotifier.on_stream_online (push source callback).                 *)
(***************************************************************************)
\* What "await first(self.twitch.get_streams(...))" can do: yield a stream with or
\* without a game name, yield nothing, or raise.
Lookups == {"stream", "stream_nogame", "empty", "raise"}

\* title and game as lines 339-348 of bot.py assign them.
stream_fields(m) ==
    CASE m = "stream" -> [title |-> "stream.title", game |-> "stream.game_name"]
      [] m = "stream_nogame" -> [title |-> "stream.title", game |-> "Unknown"]
      [] m = "empty" -> [title |-> "Live now!", game |-> "Unknown"]
      [] m = "raise" -> [title |-> "Live now!", game |-> "Unknown"]

after_lookup_drop(m) == IF m \in {"empty", "raise"} THEN "return" ELSE "render"

\* Where on_stream_online goes after the lookup: on to the rendering, whatever
\* the lookup did (the except clause falls through, bot.py:345-352).
after_lookup(m) == "render"

\* A stream.online event of a subscribed channel is delivered: the callback runs up
\* to "await first(self.twitch.get_streams(...))" (bot.py:330-337).
EvArrive(c) ==
    /\ CanResume
    /\ eventsub = "started"
    /\ c \in listeners
    /\ evpc = "idle"
    /\ evCount < MaxEvents
    /\ evCount' = evCount + 1
    /\ evpc' = "get_streams"
    /\ UNCHANGED <<envVars, mainpc, exitVars, loopVars, active, twVars, stoppc, ytVars,
                   evMeta, evMsg, evTrace, evPost, threadsPending>>

\* The lookup returns a stream, returns nothing, or raises; title and game are set
\* either way (bot.py:336-348).
EvMetadata(m) ==
    /\ evpc = "get_streams"
    /\ CanResume
    /\ evMeta' = m
    /\ evMsg' = stream_fields(m)
    /\ evpc' = after_lookup(m)
    /\ active' = "ev"
    /\ UNCHANGED <<envVars, mainpc, exitVars, loopVars, twVars, stoppc, ytVars, evCount,
                   evTrace, evPost, threadsPending>>

\* TWITCH_NOTIFICATION_TEMPLATE.format(...) (bot.py:355-361); a KeyError ends the
\* callback.
EvRender ==
    /\ evpc = "render"
    /\ active = "ev"
    /\ evpc' = IF format(TWITCH_NOTIFICATION_TEMPLATE) = "KeyError"
               THEN "raised" ELSE "post"
    /\ UNCHANGED <<envVars, mainpc, exitVars, loopVars, active, twVars, stoppc, ytVars,
                   evCount, evMeta, evMsg, evTrace, evPost, threadsPending>>

\* post_tweet(message) (bot.py:364) returns; the callback sits in the call while
\* evpc = "post".
EvPost(o) ==
    /\ evpc = "post"
    /\ active = "ev"
    /\ evTrace' = Append(evTrace, "post")
    /\ evPost' = PostResult(post_tweet(o))
    /\ evpc' = IF post_tweet(o).raised THEN "raised" ELSE "threads"
    /\ UNCHANGED <<envVars, mainpc, exitVars, loopVars, active, twVars, stoppc, ytVars,
                   evCount, evMeta, evMsg, threadsPending>>

\* "if TWITCH_THREADS_TEMPLATE:" render and create the task (bot.py:367-376).
EvThreads ==
    /\ evpc = "threads"
    /\ active = "ev"
    /\ IF threads_dispatch(TWITCH_THREADS_TEMPLATE) = "skip"
       THEN evpc' = "return" /\ UNCHANGED <<threadsPending, evTrace>>
       ELSE IF threads_dispatch(TWITCH_THREADS_TEMPLATE) = "raise"
       THEN evpc' = "raised" /\ UNCHANGED <<threadsPending, evTrace>>
       ELSE /\ threadsPending' = threadsPending + 1
            /\ evTrace' = Append(evTrace, "task")
            /\ evpc' = "return"
    /\ UNCHANGED <<envVars, mainpc, exitVars, loopVars, active, twVars, stoppc, ytVars,
                   evCount, evMeta, evMsg, evPost>>

\* The callback is over: it returned, or its exception ended its task.
EvReturn ==
    /\ evpc \in {"return", "raised"}
    /\ active = "ev"
    /\ evpc' = "idle"
    /\ evMeta' = "none"
    /\ evMsg' = NoFields
    /\ evTrace' = <<>>
    /\ evPost' = "none"
    /\ active' = "none"
    /\ UNCHANGED <<envVars, mainpc, exitVars, loopVars, twVars, stoppc, ytVars, evCount,
                   threadsPending>>

(***************************************************************************)
(* post_threads_meta (secondary sink): detached tasks.                     *)
(***************************************************************************)
\* A pending post_threads_meta task runs to its end, whatever it returns
\* (bot.py:138-190).  Nothing waits for it and it writes no state of the monitors.
ThreadsRun ==
    /\ threadsPending > 0
    /\ CanResume
    /\ threadsPending' = threadsPending - 1
    /\ UNCHANGED <<envVars, mainpc, exitVars, loopVars, active, twVars, stoppc, ytVars,
                   evVars>>

(***************************************************************************)
(* Shutdown.                                                               *)
(***************************************************************************)
signal_handler_nostop ==
    /\ mainpc \notin {"validate", "exited"}
    /\ CanResume
    /\ ~signalled
    /\ signalled' = TRUE
    /\ running' = FALSE
    /\ stopRequested' = TRUE
    /\ stoppc' = "created"
    /\ UNCHANGED <<envVars, mainpc, exitVars, loopState, ytInBatch, active, twVars,
                   known_video_ids, ytLoopVars, evVars, threadsPending>>

\* SIGINT or SIGTERM: signal_handler runs as a callback of the loop
\* (bot.py:452-460): youtube_monitor.stop(), create_task(notifier.stop()),
\* loop.stop().  loop.stop() lets the current batch of callbacks finish and then
\* ends run_forever; the task just created is not in that batch.
signal_handler ==
    /\ mainpc \notin {"validate", "exited"}
    /\ CanResume
    /\ ~signalled
    /\ signalled' = TRUE
    /\ running' = FALSE
    /\ stopRequested' = TRUE
    /\ stoppc' = "created"
    /\ loopState' = "stopped"
    /\ exitCause' = "signal"
    /\ ytInBatch' \in IF ytpc \in {"created", "fetch", "sleep"} THEN BOOLEAN
                      ELSE {FALSE}
    /\ UNCHANGED <<envVars, mainpc, exitCode, active, twVars, known_video_ids,
                   ytLoopVars, evVars, threadsPending>>

\* Exit status of the interpreter: sys.exit(1) for the three SystemExit causes; for
\* a stopped loop asyncio.run(main()) raises RuntimeError("Event loop stopped before
\* Future completed."), an uncaught exception (bot.py:485).
ExitStatus(cause) ==
    CASE cause = "config" -> 1
      [] cause = "zero_channels" -> 1
      [] cause = "error" -> 1
      [] cause = "signal" -> 1

Cancelled(pc, live) == IF pc \in live THEN "cancelled" ELSE pc

\* asyncio.run leaves run_until_complete (SystemExit, or the stopped loop), cancels
\* every task that is not done, closes the loop, and the process exits
\* (bot.py:485).  A task cancelled before its first step runs none of its body.
Cleanup ==
    /\ loopState = "stopped"
    /\ active = "none"
    /\ loopState' = "closed"
    /\ ytInBatch' = FALSE
    /\ exitCode' = ExitStatus(exitCause)
    /\ mainpc' = IF mainpc = "exited" THEN mainpc ELSE "cancelled"
    /\ ytpc' = Cancelled(ytpc, {"created", "fetch", "sleep"})
    /\ evpc' = Cancelled(evpc, {"get_streams"})
    /\ stoppc' = Cancelled(stoppc, {"created"})
    /\ threadsPending' = 0
    /\ UNCHANGED <<envVars, exitCause, active, signalled, twVars, running,
                   known_video_ids, stopRequested, chan, det, detMarker, ytTrace, ytPost,
                   cycleKnown, cyclePosts, probed, lastLive, rejected, tweets, evCount,
                   evMeta, evMsg,
                   evTrace, evPost>>

(***************************************************************************)
(* Specifications.                                                         *)
(***************************************************************************)
YtStep ==
    \/ YtStart
    \/ YtLoopTest
    \/ YtCycleBegin
    \/ \E r \in Responses : YtProbe(r)
    \/ YtRender
    \/ \E o \in PostOutcomes : YtPost(o)
    \/ YtThreads
    \/ YtNext
    \/ YtCycleRaised
    \/ YtWake

MainStep ==
    \/ MainValidate
    \/ \E ok \in BOOLEAN : MainTwitchInit(ok)
    \/ \E ok \in BOOLEAN : MainGetCode(ok)
    \/ \E ok \in BOOLEAN : MainAuthDone(ok)
    \/ \E ok \in BOOLEAN : MainSetAuth(ok)
    \/ \E ok \in BOOLEAN, found \in SUBSET TWITCH_CHANNELS : MainGetUsers(ok, found)
    \/ \E ok \in BOOLEAN : MainListen(ok)
    \/ MainTick
    \/ MainStopEventsub
    \/ MainStopTwitch

EvStep ==
    \/ \E c \in TwChannels : EvArrive(c)
    \/ \E m \in Lookups : EvMetadata(m)
    \/ EvRender
    \/ \E o \in PostOutcomes : EvPost(o)
    \/ EvThreads
    \/ EvReturn

Next ==
    \/ MainStep
    \/ YtStep
    \/ EvStep
    \/ ThreadsRun
    \/ signal_handler
    \/ Cleanup

Spec == Init /\ [][Next]_vars

\* The loop runs every ready callback, a timer elapses, an HTTP request of aiohttp
\* ends (a response, an error, or its default total timeout), a running task
\* reaches its next await, and asyncio.run always runs its clean-up.  Nothing is
\* assumed of the user, of Twitch or of signals.
Fairness ==
    /\ WF_vars(YtStep)
    /\ WF_vars(EvRender)
    /\ WF_vars(\E o \in PostOutcomes : EvPost(o))
    /\ WF_vars(EvThreads)
    /\ WF_vars(EvReturn)
    /\ WF_vars(Cleanup)

LiveSpec == Init /\ [][Next]_vars /\ Fairness

(***************************************************************************)
(* post_threads_meta followed step by step (ThreadsSpec): one detection    *)
(* reaches its secondary branch, and the task it may create runs against   *)
(* every answer of the Threads API.                                        *)
(***************************************************************************)
mainVars == <<mainpc, exitVars, loopVars, active, twVars, stoppc, ytVars, evVars,
              threadsPending>>

\* Container ids the create call can return.
ContainerIds == 1..MaxContainers

\* The detection's source, THREADS_ACCESS_TOKEN and THREADS_USER_ID set or not
\* (bot.py:61-62), and the rendered message, empty or not.
ThreadsInputs ==
    [src : {"yt", "tw"}, token : BOOLEAN, user : BOOLEAN, message : {"", "text"}]

THREADS_ACCESS_TOKEN == thIn.token
THREADS_USER_ID == thIn.user

\* The secondary template of the source of the detection.
ThreadsTemplate ==
    IF thIn.src = "yt" THEN YOUTUBE_THREADS_TEMPLATE ELSE TWITCH_THREADS_TEMPLATE

\* What "session.post(.../threads)" and "await resp.json()" can yield: an
\* exception, or a status and a body with or without an "id".
CreateResponses ==
    {[exc |-> TRUE, status |-> 0, id |-> None]}
    \cup [exc : {FALSE}, status : {200, 400}, id : ContainerIds \cup {None}]

\* What the publish call can yield: an exception, or a status.
PublishResponses ==
    {[exc |-> TRUE, status |-> 0]} \cup [exc : {FALSE}, status : {200, 400}]

\* A post_threads_meta without its guard.
threads_ready_nocheck(in) == TRUE

\* The guard of post_threads_meta (bot.py:140), negated: all three are truthy.
threads_ready(in) == in.token /\ in.user /\ in.message # ""

\* A step 1 that takes the id of the body whatever the status.
create_step_nostatus(r) == IF r.exc THEN None ELSE r.id

\* Step 1 (bot.py:152-168): the container id, or None when the step failed.
create_step(r) ==
    IF r.exc THEN None
    ELSE IF r.status # 200 THEN None
    ELSE r.id

\* Step 2 (bot.py:172-186): published or not.
publish_step(r) == ~r.exc /\ r.status = 200

ThreadsInit ==
    /\ MainInit
    /\ thpc = "dispatch"
    /\ thIn \in ThreadsInputs
    /\ thCalls = <<>>
    /\ thResp = <<>>
    /\ thRet = "none"
    /\ NotifierIdle
    /\ InfoIdle
    /\ FormatIdle

\* The secondary branch of the detection (bot.py:283-292, 367-376): no task, a
\* KeyError, or a post_threads_meta task created with the rendered message.
ThDispatch ==
    /\ thpc = "dispatch"
    /\ thpc' = CASE threads_dispatch(ThreadsTemplate) = "skip" -> "skipped"
                 [] threads_dispatch(ThreadsTemplate) = "raise" -> "raised"
                 [] threads_dispatch(ThreadsTemplate) = "task" -> "entry"
    /\ UNCHANGED <<cfg, mainVars, thIn, thCalls, thResp, thRet, nsVars, giVars, fmtVars>>

\* First step of the task: the guard, then the create call (bot.py:138-159).
ThEntry ==
    /\ thpc = "entry"
    /\ IF threads_ready(thIn)
       THEN /\ thCalls' = <<[url |-> "threads", creation_id |-> None]>>
            /\ thpc' = "create"
            /\ thRet' = thRet
       ELSE /\ thCalls' = thCalls
            /\ thpc' = "done"
            /\ thRet' = "False"
    /\ UNCHANGED <<cfg, mainVars, thIn, thResp, nsVars, giVars, fmtVars>>

\* The create call is answered with r; on success the publish call is made with
\* the id it returned (bot.py:160-178).
ThCreated(r) ==
    /\ thpc = "create"
    /\ thResp' = Append(thResp, r)
    /\ IF create_step(r) = None
       THEN /\ thpc' = "done"
            /\ thRet' = "False"
            /\ thCalls' = thCalls
       ELSE /\ thpc' = "publish"
            /\ thRet' = thRet
            /\ thCalls' = Append(thCalls, [url |-> "threads_publish",
                                           creation_id |-> create_step(r)])
    /\ UNCHANGED <<cfg, mainVars, thIn, nsVars, giVars, fmtVars>>

\* The publish call is answered with r (bot.py:179-190).
ThPublished(r) ==
    /\ thpc = "publish"
    /\ thResp' = Append(thResp, [exc |-> r.exc, status |-> r.status, id |-> None])
    /\ thpc' = "done"
    /\ thRet' = IF publish_step(r) THEN "True" ELSE "False"
    /\ UNCHANGED <<cfg, mainVars, thIn, thCalls, nsVars, giVars, fmtVars>>

ThreadsNext ==
    \/ ThDispatch
    \/ ThEntry
    \/ \E r \in CreateResponses : ThCreated(r)
    \/ \E r \in PublishResponses : ThPublished(r)

ThreadsSpec == ThreadsInit /\ [][ThreadsNext]_vars

(***************************************************************************)
(* TwitchNotifier driven on its own (NotifierSpec): a caller awaits        *)
(* start() at most once, on a new notifier, and awaits stop() any number   *)
(* of times, one call after the other.                                     *)
(***************************************************************************)
\* A configuration with every required setting and no YouTube channel.
DefaultConfig ==
    [envOK |-> TRUE, twChannels |-> 1, ytChannels |-> 0, scheduled |-> {},
     ytTemplates |-> <<"ok", "empty">>, twTemplates |-> <<"ok", "empty">>]

\* How far start() gets (bot.py:378-426): it raises before self.twitch is set,
\* raises with self.twitch set and self.eventsub not, raises in a
\* listen_stream_online with both set, or returns.
StartOutcomes == {"no_client", "client_only", "listen_failed", "returned"}

NotifierInit ==
    /\ MainInit
    /\ cfg = DefaultConfig
    /\ ThreadsIdle
    /\ InfoIdle
    /\ FormatIdle
    /\ nspc = "idle"
    /\ nsCount = [eventsub_stop |-> 0, twitch_close |-> 0, stops |-> 0,
                  started |-> "no", raised |-> FALSE]

nsFrame == <<cfg, mainpc, exitVars, loopVars, active, broadcaster_ids, listeners,
             stoppc, ytVars, evVars, threadsPending, thVars, giVars, fmtVars>>

\* The caller awaits start() and it ends as "how" says.
NsStart(how) ==
    /\ nspc = "idle"
    /\ nsCount.started = "no"
    /\ twitch' = IF how = "no_client" THEN "None" ELSE "open"
    /\ eventsub' = IF how \in {"listen_failed", "returned"} THEN "started" ELSE "None"
    /\ nsCount' = [nsCount EXCEPT !.started = how]
    /\ UNCHANGED <<nspc, nsFrame>>

\* stop() up to its first await (bot.py:428-436): "if self.eventsub:" and "if
\* self.twitch:" test the attributes, which stop() never sets back to None.
stop_entry(es, tw) ==
    IF es # "None" THEN "eventsub_stop"
    ELSE IF tw # "None" THEN "twitch_close"
    ELSE "idle"

\* The caller awaits stop().
NsStop ==
    /\ nspc = "idle"
    /\ nsCount.stops < MaxStopCalls
    /\ nsCount' = [nsCount EXCEPT !.stops = @ + 1]
    /\ nspc' = stop_entry(eventsub, twitch)
    /\ UNCHANGED <<twitch, eventsub, nsFrame>>

\* "await self.eventsub.stop()" ends (bot.py:433).  What the library does with a
\* connection that was stopped before is not in this repository: it returns or
\* it raises, and an exception leaves stop().
NsEventsubStop(raises) ==
    /\ nspc = "eventsub_stop"
    /\ raises => eventsub = "stopped"
    /\ nsCount' = [nsCount EXCEPT !.eventsub_stop = @ + 1,
                                  !.raised = @ \/ raises]
    /\ eventsub' = "stopped"
    /\ nspc' = IF raises THEN "idle"
               ELSE IF twitch # "None" THEN "twitch_close" ELSE "idle"
    /\ UNCHANGED <<twitch, nsFrame>>

\* "await self.twitch.close()" ends (bot.py:436), likewise.
NsTwitchClose(raises) ==
    /\ nspc = "twitch_close"
    /\ raises => twitch = "closed"
    /\ nsCount' = [nsCount EXCEPT !.twitch_close = @ + 1,
                                  !.raised = @ \/ raises]
    /\ twitch' = "closed"
    /\ nspc' = "idle"
    /\ UNCHANGED <<eventsub, nsFrame>>

NotifierNext ==
    \/ \E how \in StartOutcomes : NsStart(how)
    \/ NsStop
    \/ \E raises \in BOOLEAN : NsEventsubStop(raises)
    \/ \E raises \in BOOLEAN : NsTwitchClose(raises)

NotifierSpec == NotifierInit /\ [][NotifierNext]_vars

(***************************************************************************)
(* get_streamer_info on its own (InfoSpec): one call, for every length of  *)
(* the two lists and every index.  An entry of a list is written           *)
(* <<list, position>>, the literal "fans" is <<"fans">>, and the f-string  *)
(* f"Streamer{index}" is <<"Streamer", index>>.                            *)
(***************************************************************************)
InfoInputs == [fans : 0..MaxNames, names : 0..MaxNames, index : 0..MaxIndex]

FANNAMES == [i \in 1..giIn.fans |-> <<"FANNAMES", i>>]

DISPLAY_NAMES == [i \in 1..giIn.names |-> <<"DISPLAY_NAMES", i>>]

\* A lookup that falls back to both defaults as soon as either list is too short.
get_streamer_info_joint(index) ==
    IF index < Len(FANNAMES) /\ index < Len(DISPLAY_NAMES)
    THEN <<FANNAMES[index + 1], DISPLAY_NAMES[index + 1]>>
    ELSE <<<<"fans">>, <<"Streamer", index>>>>

\* get_streamer_info (bot.py:65-69); list[index] of Python is element index + 1.
get_streamer_info(index) ==
    LET fanname == IF index < Len(FANNAMES) THEN FANNAMES[index + 1] ELSE <<"fans">>
        display_name == IF index < Len(DISPLAY_NAMES)
                        THEN DISPLAY_NAMES[index + 1]
                        ELSE <<"Streamer", index>>
    IN  <<fanname, display_name>>

InfoInit ==
    /\ MainInit
    /\ cfg = DefaultConfig
    /\ ThreadsIdle
    /\ NotifierIdle
    /\ FormatIdle
    /\ giIn \in InfoInputs
    /\ giOut = <<>>

\* "fanname, display_name = get_streamer_info(index)" (bot.py:268, 352).
GiCall ==
    /\ giOut = <<>>
    /\ giOut' = get_streamer_info(giIn.index)
    /\ UNCHANGED <<cfg, mainVars, thVars, nsVars, giIn, fmtVars>>

InfoNext == GiCall

InfoSpec == InfoInit /\ [][InfoNext]_vars

(***************************************************************************)
(* str.format as the two paths call it (FormatSpec): one call, for every   *)
(* template of up to MaxTokens tokens.  A token is literal text, an        *)
(* escaped brace "{{", a named replacement field "{name}", an              *)
(* automatically numbered field "{}", or a single brace that opens or      *)
(* closes nothing.  The message is the sequence of its pieces: literal     *)
(* text, or the value of a keyword argument.                               *)
(***************************************************************************)
\* The keyword arguments of the calls of the poll path (bot.py:271-277, 284-290)
\* and of the push path (bot.py:355-361, 368-374).
YtFields == {"channel", "display_name", "fanname", "title", "video_id"}
TwFields == {"channel", "display_name", "fanname", "title", "game"}

\* The names a template may use: those either path supplies, and one neither does.
FieldNames == YtFields \cup TwFields \cup {"other"}

Tokens ==
    {[kind |-> "text", name |-> "text"], [kind |-> "escaped", name |-> "{"],
     [kind |-> "auto", name |-> "0"], [kind |-> "brace", name |-> "{"]}
    \cup [kind : {"field"}, name : FieldNames]

Templates == UNION {[1..n -> Tokens] : n \in 0..MaxTokens}

FormatInputs == [path : {"yt", "tw"}, template : Templates]

\* The keyword arguments of the call of one path.
Supplied(path) == IF path = "yt" THEN YtFields ELSE TwFields

\* A lookup that finds every name, the value of an unknown one being empty.
has_field_any(kwargs, name) == TRUE

\* The lookup of a named field in the keyword arguments; str.format raises
\* KeyError when it fails.
has_field(kwargs, name) == name \in kwargs

Raised(error, key) == [state |-> error, key |-> key, out |-> <<>>]

\* str.format(**kwargs): the template is read from left to right, each piece is
\* rendered as it is read, and the first piece that cannot be ends the call.
RECURSIVE Render(_, _, _)
Render(template, kwargs, out) ==
    IF template = <<>> THEN [state |-> "rendered", key |-> "", out |-> out]
    ELSE LET tok == Head(template) IN
         CASE tok.kind = "brace" -> Raised("ValueError", "")
           [] tok.kind = "auto" -> Raised("IndexError", "")
           [] tok.kind = "field" /\ ~has_field(kwargs, tok.name)
                 -> Raised("KeyError", tok.name)
           [] tok.kind = "field" /\ has_field(kwargs, tok.name)
                 -> Render(Tail(template), kwargs, Append(out, <<"value", tok.name>>))
           [] OTHER -> Render(Tail(template), kwargs, Append(out, <<"text", tok.name>>))

str_format(template, kwargs) == Render(template, kwargs, <<>>)

FormatInit ==
    /\ MainInit
    /\ cfg = DefaultConfig
    /\ ThreadsIdle
    /\ NotifierIdle
    /\ InfoIdle
    /\ fmtIn \in FormatInputs
    /\ fmtOut = [state |-> "none", key |-> "", out |-> <<>>]

\* "<TEMPLATE>.format(channel=..., ...)" (bot.py:271-277, 355-361).
FmtCall ==
    /\ fmtOut.state = "none"
    /\ fmtOut' = str_format(fmtIn.template, Supplied(fmtIn.path))
    /\ UNCHANGED <<cfg, mainVars, thVars, nsVars, giVars, fmtIn>>

FormatNext == FmtCall

FormatSpec == FormatInit /\ [][FormatNext]_vars

(***************************************************************************)
(* Properties.                                                             *)
(***************************************************************************)
\* Positions of YouTubeMonitor.start inside the dispatch of one detection.
DispatchPcs == {"render", "post", "threads", "next", "raised"}

\* Positions of YouTubeMonitor.start inside its while loop, from the loop test on.
LoopPcs == {"loop_test", "fetch", "render", "post", "threads", "next", "raised",
            "sleep"}

Has(trace, step) == \E i \in 1..Len(trace) : trace[i] = step

\* C1: an id that is in known_video_ids when a check cycle begins (the ids
\* pre-seeded from the scheduled-streams list included) is not dispatched in that
\* cycle: no detection is opened for it, neither sink is reached for it, and a
\* pre-seeded id is never posted at all.
C1_KnownNotRedispatched ==
    /\ cyclePosts \cap cycleKnown = {}
    /\ ytpc \in DispatchPcs => det \notin cycleKnown
    /\ \A v \in VideoIds : v \in YOUTUBE_SCHEDULED_STREAMS => tweets[v] = 0

\* C1 happens: in the running cycle a channel's page resolved, with the marker, to
\* a pre-seeded id that the cycle began with, and nothing was posted.
C1_Witness ==
    /\ ytpc = "fetch"
    /\ lastLive # None
    /\ lastLive \in YOUTUBE_SCHEDULED_STREAMS
    /\ lastLive \in cycleKnown
    /\ cyclePosts = {}

\* C2: a probe whose response lacks the playability marker opens no detection,
\* adds nothing to known_video_ids and reaches no sink: a dispatch is always
\* backed by a response with the marker, and an id seen only without the marker
\* is in known_video_ids or posted only once a later response with the marker
\* has made it the current detection.
C2_UnplayableIgnored ==
    /\ ytpc \in DispatchPcs => det # None /\ detMarker
    /\ \A v \in rejected :
          (v \in known_video_ids \/ v \in cyclePosts \/ tweets[v] > 0)
              => (v = det /\ detMarker)

\* C2 happens: an id rejected earlier for the missing marker is being announced.
C2_Witness == ytpc = "post" /\ det \in rejected

\* C3: the steps of one detection come in a fixed order: the poll path marks the
\* id known, then posts to the primary sink, then creates the secondary task;
\* the push path posts, then creates the task; no id is posted that is not in
\* known_video_ids.
C3_DetectionOrder ==
    /\ ytTrace \in {<<>>, <<"mark">>, <<"mark", "post">>, <<"mark", "post", "task">>}
    /\ evTrace \in {<<>>, <<"post">>, <<"post", "task">>}
    /\ ytpc \in {"post", "threads", "next"} => det \in known_video_ids
    /\ \A v \in VideoIds : tweets[v] > 0 => v \in known_video_ids

\* C3 happens: a poll detection went through its three steps.
C3_Witness == ytTrace = <<"mark", "post", "task">> /\ ytPost = "ok"

C5_Original == ytpc = "raised" => probed = YOUTUBE_CHANNELS

\* C6: while no stop has been requested, the poll loop, wherever it is (in the
\* handler of an exception that escaped a cycle included), goes on to begin
\* another check cycle.
C6_LoopSurvivesCycleFailure ==
    (ytpc \in LoopPcs /\ ~stopRequested) ~> (ytpc = "cycle_begin" \/ stopRequested)

\* C6 happens: an exception has escaped a check cycle and no stop was requested.
C6_Witness == ytpc = "raised" /\ ~stopRequested /\ chan < cfg.ytChannels

\* C7 as stated: once stop() has been requested no new cycle is begun, the cycle
\* in flight completes, and start() returns: the poll task is never ended in any
\* other way.
C7_Original ==
    /\ stopRequested => ytpc # "cycle_begin"
    /\ (stopRequested /\ loopState = "closed" /\ ytpc # "none") => ytpc = "returned"

\* C8 as stated: after a termination signal the process does not exit before
\* TwitchNotifier.stop has closed the EventSub connection and the Twitch client.
C8_Original ==
    (signalled /\ exitCode # -1)
        => /\ stoppc = "done"
           /\ eventsub \in {"None", "stopped"}
           /\ twitch \in {"None", "closed"}

\* C9: a termination signal that arrives while start() is blocked in
\* wait_for_auth_complete leads to the end of the process.
C9_SignalEndsAuthWait ==
    (mainpc = "wait_auth" /\ signalled) ~> (exitCode # -1 /\ mainpc = "cancelled")

\* C9 happens: the signal handler ran during the authorization wait.
C9_Witness == mainpc = "wait_auth" /\ signalled /\ exitCode = -1

\* C10 as stated: the exit status is 0 after a termination signal and 1 after a
\* missing setting, zero resolved channels or an unhandled error; with a setting
\* missing, neither monitor was started.
C10_Original ==
    /\ exitCode # -1 => exitCode = (IF exitCause = "signal" THEN 0 ELSE 1)
    /\ exitCause = "config" => twitch = "None" /\ eventsub = "None" /\ ytpc = "none"

\* Number of primary-sink post attempts recorded in a detection's trace.
Posts(trace) == Cardinality({i \in 1..Len(trace) : trace[i] = "post"})

\* C11 as stated: every delivered stream.online event gets exactly one
\* primary-sink post attempt, and a lookup that raised or found no stream still
\* posts, with "Live now!" and "Unknown".
C11_Original ==
    /\ evpc \in {"return", "raised"} => Posts(evTrace) = 1
    /\ (evpc \in {"post", "threads", "return", "raised"}
            /\ evMeta \in {"empty", "raise"})
          => evMsg = [title |-> "Live now!", game |-> "Unknown"]

\* C11 amended: the callback makes at most one primary-sink post attempt per
\* event, and exactly one unless rendering TWITCH_NOTIFICATION_TEMPLATE raised
\* (the template names a field the call does not supply); a lookup that raised
\* or found no stream does not drop the event: it goes on with "Live now!" and
\* "Unknown".
C11_OnePostPerEvent ==
    /\ Posts(evTrace) <= 1
    /\ evpc = "return" => Posts(evTrace) = 1
    /\ evpc = "raised" => Posts(evTrace) = 1 \/ TWITCH_NOTIFICATION_TEMPLATE = "bad"
    /\ (evpc = "raised" /\ Posts(evTrace) = 1) => TWITCH_THREADS_TEMPLATE = "bad"
    /\ (evpc \in {"render", "post", "threads", "return", "raised"}
            /\ evMeta \in {"empty", "raise"})
          => evMsg = [title |-> "Live now!", game |-> "Unknown"]
    /\ evpc \in {"threads", "return"} => Posts(evTrace) = 1

\* C11 happens: the lookup raised and the event was posted all the same.
C11_Witness == evpc = "return" /\ evMeta = "raise" /\ Posts(evTrace) = 1

\* C12: the secondary sink is opt-in.  A post_threads_meta task exists only for a
\* source whose secondary template is not empty, an empty template raises
\* nothing, and a task whose token, user id or message is empty makes no
\* network call and returns False.
C12_SecondaryOptIn ==
    /\ thpc \in {"entry", "create", "publish", "done"} => ThreadsTemplate # "empty"
    /\ ThreadsTemplate = "empty" => thpc \in {"dispatch", "skipped"}
    /\ (~THREADS_ACCESS_TOKEN \/ ~THREADS_USER_ID \/ thIn.message = "")
          => /\ thCalls = <<>>
             /\ thpc \notin {"create", "publish"}
             /\ thpc = "done" => thRet = "False"

\* C12 happens: a task created without an access token has returned False and
\* made no call.
C12_Witness ==
    /\ thpc = "done"
    /\ ~THREADS_ACCESS_TOKEN
    /\ THREADS_USER_ID
    /\ thIn.message # ""
    /\ thRet = "False"

\* C13 as stated: the secondary-sink attempt of a detection does not wait for the
\* primary sink: while the primary call is outstanding the secondary task of the
\* same detection can be created, and a secondary task that is pending can run.
C13_Original ==
    /\ (ytpc = "post" /\ threads_dispatch(YOUTUBE_THREADS_TEMPLATE) = "task")
          => ENABLED YtThreads
    /\ (evpc = "post" /\ threads_dispatch(TWITCH_THREADS_TEMPLATE) = "task")
          => ENABLED EvThreads
    /\ (ytpc = "post" /\ threadsPending > 0) => ENABLED ThreadsRun

\* C14: the detection path does not wait for the secondary sink.  With tasks
\* pending, check_all_channels can go on to the next channel and on_stream_online
\* can return; and a post_threads_meta task that ends, whatever it returns,
\* changes nothing of either monitor.
C14_SecondaryNotAwaited ==
    /\ [](/\ ytpc = "next" => ENABLED YtNext
          /\ evpc = "return" => ENABLED EvReturn)
    /\ [][(threadsPending' < threadsPending /\ loopState' = "running")
              => UNCHANGED <<ytVars, evVars, twVars>>]_vars

\* C14 happens: the poll cycle is at its second channel while the secondary task
\* of the first channel's detection has not run.
C14_Witness ==
    /\ ytpc = "fetch"
    /\ chan > 1
    /\ cyclePosts # {}
    /\ threadsPending > 0
    /\ evCount = 0

\* C15 as stated: stop() is safe and idempotent in every lifecycle state: called
\* before start, after a start that failed part-way, or again after a completed
\* stop, it raises nothing and closes the EventSub connection and the Twitch
\* client at most once each.
C15_Original ==
    /\ ~nsCount.raised
    /\ nsCount.eventsub_stop <= 1
    /\ nsCount.twitch_close <= 1

\* C16: start-up goes on with the channels Twitch resolves.  Listeners are
\* registered one resolved channel at a time, each once, and never for an
\* unresolved channel; when start() has returned every resolved channel has its
\* listener; when no channel resolves, the process exits with status 1 and no
\* EventSub connection was opened.
C16_ResolvedSubset ==
    /\ [](/\ listeners \subseteq broadcaster_ids
          /\ broadcaster_ids \subseteq TWITCH_CHANNELS
          /\ eventsub # "None" => broadcaster_ids # {}
          /\ mainpc = "sleep" => listeners = broadcaster_ids /\ eventsub = "started"
          /\ exitCause = "zero_channels"
                => /\ eventsub = "None"
                   /\ broadcaster_ids = {} /\ listeners = {}
                   /\ exitCode \in {-1, 1}
                   /\ loopState = "closed" => exitCode = 1)
    /\ [][listeners' # listeners
              => \E c \in broadcaster_ids \ listeners : listeners' = listeners \cup {c}]_vars

\* C16 happens: one of two configured channels resolved, and start() returned
\* with a listener for that channel alone.
C16_Witness ==
    /\ mainpc = "sleep"
    /\ cfg.twChannels = 2
    /\ Cardinality(broadcaster_ids) = 1
    /\ listeners = broadcaster_ids

\* The awaits of TwitchNotifier.start() at which main() can be suspended, and
\* those of the exception handler of main() that follows a failed start().
StartupPcs == {"validate", "twitch_init", "get_code", "wait_auth", "set_auth",
               "get_users", "listen"}
FailurePcs == {"h_eventsub_stop", "h_twitch_close"}

\* C17: the YouTube monitor is started only after TwitchNotifier.start() has
\* returned.  While main() is inside start() or inside the handler of a failed
\* start(), and after an exit caused by a failed start-up, the YouTube task does
\* not exist and no check cycle has left any trace; whenever the task exists,
\* authentication, channel resolution and every subscription are done.
C17_PollAfterPushStartup ==
    /\ (mainpc \in StartupPcs \cup FailurePcs
           \/ exitCause \in {"config", "zero_channels", "error"})
          => /\ ytpc = "none"
             /\ ytTrace = <<>> /\ cycleKnown = {} /\ ~running
    /\ ytpc # "none"
          => /\ twitch # "None" /\ eventsub # "None"
             /\ broadcaster_ids # {} /\ listeners = broadcaster_ids

\* C17 happens: start() has returned, the YouTube task runs a check cycle.
C17_Witness ==
    /\ mainpc = "sleep"
    /\ ytpc = "fetch"
    /\ listeners = broadcaster_ids

\* C18 as stated: the lookup returns (display name, fan label) in that order.
C18_Original ==
    giOut # <<>>
       => /\ giOut[1] = IF giIn.index < giIn.names
                        THEN <<"DISPLAY_NAMES", giIn.index + 1>>
                        ELSE <<"Streamer", giIn.index>>
          /\ giOut[2] = IF giIn.index < giIn.fans
                        THEN <<"FANNAMES", giIn.index + 1>>
                        ELSE <<"fans">>

\* C18: for every index >= 0 the lookup is defined and returns the pair
\* (fan label, display name) in that order.  The fan label is the entry of
\* FANNAMES at the index, or "fans" past the end of FANNAMES; the display name is
\* the entry of DISPLAY_NAMES at the index, or "Streamer{index}" past the end of
\* DISPLAY_NAMES; the length of one list has no effect on the other component.
C18_FanLabelThenDisplayName ==
    /\ giOut = <<>> => ENABLED GiCall
    /\ giOut # <<>>
          => /\ Len(giOut) = 2
             /\ giIn.index < giIn.fans => giOut[1] = <<"FANNAMES", giIn.index + 1>>
             /\ giIn.index >= giIn.fans => giOut[1] = <<"fans">>
             /\ giIn.index < giIn.names => giOut[2] = <<"DISPLAY_NAMES", giIn.index + 1>>
             /\ giIn.index >= giIn.names => giOut[2] = <<"Streamer", giIn.index>>

\* C18 happens: index 0 with one display name and no fan label configured.
C18_Witness ==
    /\ giIn = [fans |-> 0, names |-> 1, index |-> 0]
    /\ giOut = <<<<"fans">>, <<"DISPLAY_NAMES", 1>>>>

\* main() is past "YouTubeMonitor(YOUTUBE_CHANNELS, YOUTUBE_SCHEDULED_STREAMS)"
\* (bot.py:446): the monitor and its known_video_ids exist.
MonitorConstructed == mainpc # "validate" /\ exitCause # "config"

\* C19: known_video_ids only grows.  From the construction of the monitor on it
\* holds every pre-seeded scheduled-stream identifier, and no step of the program
\* (check cycle, failed post, stop, signal, exit) takes an identifier out of it.
C19_KnownMonotone ==
    /\ [](MonitorConstructed => YOUTUBE_SCHEDULED_STREAMS \subseteq known_video_ids)
    /\ [][known_video_ids \subseteq known_video_ids']_vars

\* C19 happens: a pre-seeded identifier and a detected one are both known after a
\* post that failed and a stop.
C19_Witness ==
    /\ YOUTUBE_SCHEDULED_STREAMS # {}
    /\ YOUTUBE_SCHEDULED_STREAMS \subseteq known_video_ids
    /\ known_video_ids # YOUTUBE_SCHEDULED_STREAMS
    /\ ytPost = "fail"
    /\ ~running /\ stopRequested

\* An answer of the Threads API that lets post_threads_meta go on: no exception
\* and status 200.
StepOK(r) == ~r.exc /\ r.status = 200

\* C20: post_threads_meta makes the create call first and the publish call second,
\* the publish call only after the create call was answered with status 200 and a
\* container id, and with that id.  A status other than 200 or an exception at
\* either step ends the task with False and no exception; True is returned only
\* when both calls were answered with status 200; nothing but the task's own
\* state changes.
C20_TwoStepProtocol ==
    /\ [](/\ Len(thCalls) <= 2
          /\ Len(thResp) <= Len(thCalls)
          /\ Len(thCalls) >= 1 => thCalls[1].url = "threads"
          /\ Len(thCalls) = 2
                => /\ thCalls[2].url = "threads_publish"
                   /\ Len(thResp) >= 1
                   /\ StepOK(thResp[1]) /\ thResp[1].id # None
                   /\ thCalls[2].creation_id = thResp[1].id
          /\ \A i \in 1..Len(thResp) :
                ~StepOK(thResp[i])
                   => thpc = "done" /\ thRet = "False" /\ Len(thResp) = i
          /\ thRet = "True"
                => Len(thResp) = 2 /\ StepOK(thResp[1]) /\ StepOK(thResp[2])
          /\ thpc = "done" <=> thRet \in {"True", "False"}
          /\ thpc \in {"create", "publish", "done"}
                => threads_dispatch(ThreadsTemplate) = "task")
    /\ [][UNCHANGED <<cfg, mainVars>>]_vars

\* C20 happens: both calls were made and answered with status 200, the second
\* with the container id of the first, and the task returned True.
C20_Witness ==
    /\ thpc = "done"
    /\ thRet = "True"
    /\ Len(thCalls) = 2
    /\ thCalls[2].creation_id = thResp[1].id
    /\ thResp[1].id = MaxContainers

\* The placeholders a template references, and whether all of them are named
\* fields between matched braces.
Referenced(template) ==
    {template[i].name : i \in {j \in 1..Len(template) :
                                  template[j].kind \in {"field", "auto"}}}
NamedOnly(template) ==
    \A i \in 1..Len(template) : template[i].kind \in {"text", "escaped", "field"}

DispatchFailed(v) == det = v /\ (ytpc = "raised" \/ ytPost = "fail")

\* C22: the poll path announces at most once.  When the rendering or the post of
\* a new detection fails, its id is in known_video_ids already; an id in
\* known_video_ids stays there, no new detection is ever opened for it, and
\* neither sink is reached for it outside the one detection that added it; that
\* detection makes one post_tweet call at most and ends at a rendering failure.
C22_AtMostOnce ==
    /\ [](\A v \in VideoIds : DispatchFailed(v) => v \in known_video_ids)
    /\ [][\A v \in known_video_ids :
             /\ v \in known_video_ids'
             /\ det' = v => det = v
             /\ tweets'[v] # tweets[v] => det = v /\ ytpc = "post" /\ ytPost = "none"
             /\ v \in cyclePosts' \ cyclePosts => det = v
             /\ (det = v /\ ytpc = "raised") => det' = None]_vars

\* C22 happens: the rendering for an id failed, so that the id is known without a
\* post, and a later probe resolved to that id again without opening a detection.
C22_Witness ==
    /\ lastLive # None
    /\ det = None
    /\ lastLive \in known_video_ids \ YOUTUBE_SCHEDULED_STREAMS
    /\ tweets[lastLive] = 0
    /\ format(YOUTUBE_NOTIFICATION_TEMPLATE) = "KeyError"

\* C23: over the whole run the poll monitor calls post_tweet at most once for
\* each video id, whichever channels resolve to it and in whichever cycles.  The
\* test on known_video_ids and the insertion are one step: a detection is opened
\* only for an id that is not known and the id is known when the step is over, so
\* that at every point where another task can run the id of an open detection is
\* in the set.
C23_OnePostPerVideo ==
    /\ [](/\ \A v \in VideoIds : tweets[v] <= 1
          /\ det # None => det \in known_video_ids
          /\ ytpc \in DispatchPcs => active = "yt")
    /\ [][\A v \in VideoIds :
             (det' = v /\ det # v) => v \notin known_video_ids /\ v \in known_video_ids']_vars

\* C23 happens: with two channels configured, the first channel resolves in a
\* later cycle to an id that was posted once in an earlier cycle; it is not
\* posted again and the cycle goes on to the second channel.
C23_Witness ==
    /\ cfg.ytChannels = 2
    /\ ytpc = "fetch" /\ chan = 2
    /\ lastLive # None
    /\ lastLive \in cycleKnown
    /\ tweets[lastLive] = 1
    /\ cyclePosts = {}

=============================================================================
